---- MODULE Spec2Model ----
(***************************************************************************)
(* A model of cgreen's test runner (src/runner.c): the two entry points    *)
(* run_test_suite and run_single_test, the recursive traversals            *)
(* run_every_test and run_named_test, and the per-test sequence            *)
(* run_test_in_the_current_process / run_the_test_code with its C++        *)
(* exception handlers.  The recursion is an explicit stack of frames; the  *)
(* reporter callbacks, hooks and test bodies the runner calls are recorded *)
(* in the order they are called in the variable trace.                     *)
(*                                                                         *)
(* The environment variable is read anew at every getenv but keeps its     *)
(* value during a run.  A test of the full-suite run is one step: the      *)
(* child process and what it relays are outside runner.c.  Exceptions are  *)
(* thrown by what run_the_test_code calls (the hooks and the body of a     *)
(* test, C++ build); an exception no handler catches leaves the runner     *)
(* (pc = "unwound").                                                       *)
(*                                                                         *)
(* The breadcrumb (breadcrumb.h), of which the repository's sources here   *)
(* hold only the tests, is modelled from its specification and has a       *)
(* specification of its own, BreadcrumbSpec.                               *)
(***************************************************************************)
EXTENDS Integers, Sequences, FiniteSets, TLC

VARIABLES
    tree,        \* the TestSuite tree handed to the runner (read-only)
    mode,        \* "suite" = run_test_suite, "single" = run_single_test
    name,        \* the name argument of run_single_test
    env,         \* getenv("CGREEN_PER_TEST_TIMEOUT")
    pc,          \* position in the entry point
    stack,       \* call stack of run_every_test / run_named_test frames
    trace,       \* calls made so far, in order
    failures,    \* reporter->failures
    exceptions,  \* reporter->exceptions
    exc,         \* the C++ exception propagating out of the runner, if any
    throws,      \* number of exceptions thrown so far
    result,      \* value returned by the entry point / exit status
    trail,       \* the names on the breadcrumb, oldest first
    ops,         \* the pushes and pops applied to the breadcrumb so far
    misused,     \* a pop was applied to the empty breadcrumb
    visited,     \* the names the walker was called with in the last walk
    last_op      \* the last operation on the breadcrumb

\* The breadcrumb is a structure of its own: the runner never touches it.
bvars == <<trail, ops, misused, visited, last_op>>

vars == <<tree, mode, name, env, pc, stack, trace, failures, exceptions,
          exc, throws, result, bvars>>

\* Bound on the number of exceptions thrown by hooks and bodies in one run.
MaxThrows == 2

----------------------------------------------------------------------------
(* The test tree.                                                          *)

\* A leaf entry: a CgreenTest with the hooks of its context (FALSE = NULL).
T(n, cs, ct) ==
    [type |-> "test_function", name |-> n, ctx_setup |-> cs,
     ctx_teardown |-> ct, suite |-> 0]

\* An entry that holds a nested suite.
S(sid) ==
    [type |-> "test_suite", name |-> "", ctx_setup |-> FALSE,
     ctx_teardown |-> FALSE, suite |-> sid]

\* A TestSuite: its hooks are "do_nothing" (the default) or "custom".
Suite(su, td, tests) == [setup |-> su, teardown |-> td, tests |-> tests]

\* The trees the runner is exercised on; suite 1 is the root.
Trees ==
    { \* legacy hooks on the root, duplicates of the name in two suites
      << Suite("custom", "custom", << T("a", TRUE, TRUE), S(2), T("a", FALSE, FALSE) >>),
         Suite("do_nothing", "do_nothing", << T("b", TRUE, TRUE), T("a", TRUE, FALSE) >>) >>,
      \* sibling suites, setup-only and teardown-only legacy hooks
      << Suite("do_nothing", "custom", << S(2), S(3), T("b", TRUE, TRUE) >>),
         Suite("custom", "do_nothing", << T("a", TRUE, TRUE), T("a", FALSE, TRUE) >>),
         Suite("custom", "custom", << T("b", TRUE, TRUE) >>) >>,
      \* an empty root
      << Suite("do_nothing", "do_nothing", << >>) >>,
      \* suites without any leaf
      << Suite("custom", "custom", << S(2) >>),
         Suite("do_nothing", "do_nothing", << S(3) >>),
         Suite("do_nothing", "do_nothing", << >>) >>,
      \* three levels with leaves
      << Suite("do_nothing", "do_nothing", << S(2) >>),
         Suite("custom", "custom", << S(3), T("a", TRUE, TRUE) >>),
         Suite("do_nothing", "do_nothing", << T("a", TRUE, TRUE), T("b", FALSE, FALSE) >>) >> }

\* The names run_single_test is asked for ("zz" names no test).
Names == {"a", "b", "zz"}

Root == 1

size(s) == Len(tree[s].tests)

Entry(s, i) == tree[s].tests[i]

\* has_test (suite.c): the name occurs on a leaf somewhere in the subtree.
RECURSIVE has_test_in(_, _, _)
has_test_in(tr, s, n) ==
    \E i \in 1..Len(tr[s].tests) :
        LET e == tr[s].tests[i] IN
        IF e.type = "test_function" THEN e.name = n
        ELSE has_test_in(tr, e.suite, n)

has_test(s, n) == has_test_in(tree, s, n)

\* count_tests (suite.c): the number of leaves of the subtree.
RECURSIVE count_tests_in(_, _)
RECURSIVE SumOver(_, _, _)
count_tests_in(tr, s) ==
    SumOver(tr, s, Len(tr[s].tests))

SumOver(tr, s, k) ==
    IF k = 0 THEN 0
    ELSE LET e == tr[s].tests[k] IN
         SumOver(tr, s, k - 1)
         + (IF e.type = "test_function" THEN 1 ELSE count_tests_in(tr, e.suite))

count_tests(s) == count_tests_in(tree, s)

\* has_setup (suite.c): the suite's setup is not the default no-op.
has_setup(s) == tree[s].setup # "do_nothing"

----------------------------------------------------------------------------
(* The timeout configuration.                                              *)

\* Values of the environment variable, as strings of characters.
TimeoutStrings ==
    { << "0" >>, << "-", "5" >>, << "a", "b", "c" >>, << >>,
      << "3" >>, << "2", "x" >> }

Environments ==
    { [defined |-> FALSE, value |-> << >>] }
    \cup { [defined |-> TRUE, value |-> v] : v \in TimeoutStrings }

Digits == {"0", "1", "2", "3", "4", "5", "6", "7", "8", "9"}

DigitValue(c) ==
    CASE c = "0" -> 0 [] c = "1" -> 1 [] c = "2" -> 2 [] c = "3" -> 3
      [] c = "4" -> 4 [] c = "5" -> 5 [] c = "6" -> 6 [] c = "7" -> 7
      [] c = "8" -> 8 [] c = "9" -> 9

RECURSIVE SkipSpaces(_)
SkipSpaces(s) ==
    IF s # << >> /\ Head(s) = " " THEN SkipSpaces(Tail(s)) ELSE s

RECURSIVE ParseDigits(_, _)
ParseDigits(s, acc) ==
    IF s # << >> /\ Head(s) \in Digits
    THEN ParseDigits(Tail(s), 10 * acc + DigitValue(Head(s)))
    ELSE acc

\* atoi: blanks, an optional sign, then the leading digits; 0 without digits.
atoi(s) ==
    LET t == SkipSpaces(s) IN
    IF t = << >> THEN 0
    ELSE IF Head(t) = "-" THEN 0 - ParseDigits(Tail(t), 0)
    ELSE IF Head(t) = "+" THEN ParseDigits(Tail(t), 0)
    ELSE ParseDigits(t, 0)

per_test_timeout_defined == env.defined

per_test_timeout_value == atoi(env.value)

\* A validation that lets zero through.
timeout_is_negative(timeout) == timeout < 0

\* validate_per_test_timeout_value calls die() exactly when this holds.
timeout_is_invalid(timeout) == timeout <= 0

\* The timeout check of both entry points and of run_the_test_code dies.
validation_dies ==
    per_test_timeout_defined /\ timeout_is_invalid(per_test_timeout_value)

----------------------------------------------------------------------------
(* Exceptions, events and the shape of a step.                             *)

\* The exception types the handlers of run_setup_for, run and
\* run_teardown_for name, and one they do not.
RecognisedShapes ==
    {"std::exception&", "std::exception*", "std::string&", "std::string*",
     "const char*"}

Shapes == RecognisedShapes \cup {"int"}

\* The catch clauses: a thrown value is caught when a clause names its type.
is_caught(shape) == shape \in RecognisedShapes

NoExc == [shape |-> "none", site |-> "none", suite |-> 0, idx |-> 0]

\* What a hook or body called by run_the_test_code can do: return, or
\* throw (C++ build).  The default hook do_nothing only returns.
Outcomes(callable) ==
    {"return"} \cup
    (IF callable # "do_nothing" /\ throws < MaxThrows THEN Shapes ELSE {})

\* What the reporter books for a body that returns: nothing, a failed
\* assertion, or an exception event of its own accounting.
BodyOutcomes == {"pass", "fail", "exception"}

Ev(e, s, i, info, n) ==
    [ev |-> e, suite |-> s, idx |-> i, info |-> info, n |-> n]

Top == stack[Len(stack)]

Frame(s, i, at) == [suite |-> s, i |-> i, at |-> at]

SetTop(f) == [stack EXCEPT ![Len(stack)] = f]

At(label) == pc = "running" /\ stack # << >> /\ Top.at = label

\* The significant figures run_the_test_code resets assert_double to.
DefaultSignificantFigures == 8

\* reporter->show_fail for a converted exception: one failure and one
\* exception are booked.
show_fail_failures(f) == f + 1

show_fail_exceptions(e) == e + 1

\* The step continues in the same frame at newAt after calling events.
Continue(newAt, events, df, de, thrown) ==
    /\ stack' = SetTop([Top EXCEPT !.at = newAt])
    /\ trace' = trace \o events
    /\ failures' = failures + df
    /\ exceptions' = exceptions + de
    /\ throws' = throws + thrown
    /\ UNCHANGED <<bvars, tree, mode, name, env, pc, exc, result>>

\* A handler that gives up the rest of the test after reporting.
Caught_abandons_test(newAt, events, phase) ==
    /\ stack' = SetTop([Top EXCEPT !.at = "t_notify"])
    /\ trace' = trace \o events
                 \o << Ev("show_fail", Top.suite, Top.i, phase, 0) >>
    /\ failures' = show_fail_failures(failures)
    /\ exceptions' = show_fail_exceptions(exceptions)
    /\ throws' = throws + 1
    /\ UNCHANGED <<bvars, tree, mode, name, env, pc, exc, result>>

\* A handler caught the exception: show_fail with the phase's message.
Caught(newAt, events, phase) ==
    /\ stack' = SetTop([Top EXCEPT !.at = newAt])
    /\ trace' = trace \o events
                 \o << Ev("show_fail", Top.suite, Top.i, phase, 0) >>
    /\ failures' = show_fail_failures(failures)
    /\ exceptions' = show_fail_exceptions(exceptions)
    /\ throws' = throws + 1
    /\ UNCHANGED <<bvars, tree, mode, name, env, pc, exc, result>>

\* No handler: the exception leaves the runner through every frame.
Uncaught(events, shape, site) ==
    /\ pc' = "unwound"
    /\ exc' = [shape |-> shape, site |-> site, suite |-> Top.suite,
               idx |-> Top.i]
    /\ trace' = trace \o events
    /\ throws' = throws + 1
    /\ UNCHANGED <<bvars, tree, mode, name, env, stack, failures, exceptions,
                   result>>

\* die(): print the message and exit(EXIT_FAILURE).
die ==
    /\ pc' = "died"
    /\ result' = "EXIT_FAILURE"
    /\ trace' = Append(trace, Ev("die", 0, 0, "", per_test_timeout_value))
    /\ UNCHANGED <<bvars, tree, mode, name, env, stack, failures, exceptions,
                   exc, throws>>

----------------------------------------------------------------------------
(* The entry points run_test_suite and run_single_test.                    *)

Init ==
    /\ tree \in Trees
    /\ mode \in {"suite", "single"}
    /\ name \in (IF mode = "single" THEN Names ELSE {""})
    /\ env \in Environments
    /\ pc = "entry"
    /\ stack = << >>
    /\ trace = << >>
    /\ failures = 0
    /\ exceptions = 0
    /\ exc = NoExc
    /\ throws = 0
    /\ result = "none"
    /\ trail = << >>
    /\ ops = << >>
    /\ misused = FALSE
    /\ visited = << >>
    /\ last_op = "create"

\* if (per_test_timeout_defined()) validate_per_test_timeout_value();
validate_at_entry ==
    /\ pc = "entry"
    /\ IF validation_dies
       THEN die
       ELSE /\ pc' = "validated"
            /\ UNCHANGED <<bvars, tree, mode, name, env, stack, trace, failures,
                           exceptions, exc, throws, result>>

\* setup_reporting(reporter), then the call of the traversal on the root.
setup_reporting ==
    /\ pc = "validated"
    /\ pc' = "running"
    /\ stack' = << Frame(Root, 1, "start_suite") >>
    /\ trace' = Append(trace, Ev("setup_reporting", 0, 0, "", 0))
    /\ UNCHANGED <<bvars, tree, mode, name, env, failures, exceptions, exc,
                   throws, result>>

\* A full-suite verdict that wants at least one test to have run.
suite_success_needs_tests(f, e) ==
    (f = 0) /\ (e = 0) /\ count_tests(Root) > 0

\* A full-suite verdict that forgets the exceptions counter.
suite_success_failures_only(f, e) == (f = 0)

\* success = (reporter->failures == 0) && (reporter->exceptions == 0)
suite_success(f, e) == (f = 0) /\ (e = 0)

\* A named-test verdict that also looks at the exceptions counter.
single_success_with_exceptions(f, e) == (f = 0) /\ (e = 0)

\* success = (reporter->failures == 0)
single_success(f, e) == (f = 0)

exit_status(success) == IF success THEN "EXIT_SUCCESS" ELSE "EXIT_FAILURE"

run_test_suite_return ==
    /\ pc = "returning"
    /\ mode = "suite"
    /\ pc' = "done"
    /\ result' = exit_status(suite_success(failures, exceptions))
    /\ UNCHANGED <<bvars, tree, mode, name, env, stack, trace, failures,
                   exceptions, exc, throws>>

run_single_test_return ==
    /\ pc = "returning"
    /\ mode = "single"
    /\ pc' = "done"
    /\ result' = exit_status(single_success(failures, exceptions))
    /\ UNCHANGED <<bvars, tree, mode, name, env, stack, trace, failures,
                   exceptions, exc, throws>>

----------------------------------------------------------------------------
(* The traversals run_every_test and run_named_test.                       *)

\* (*reporter->start_suite)(reporter, suite->name, count_tests(suite));
start_suite ==
    /\ At("start_suite")
    /\ Continue("loop",
                << Ev("start_suite", Top.suite, 0, "", count_tests(Top.suite)) >>,
                0, 0, 0)

\* A traversal that gives up after the first failure.
every_dispatch_stop_on_failure(s, i) ==
    IF i > size(s) \/ failures > 0 THEN "end"
    ELSE IF Entry(s, i).type = "test_function" THEN "test"
    ELSE "suite"

\* What run_every_test does with entry i: run the leaf in its own process,
\* or wrap the nested suite; past the last entry the loop ends.
every_dispatch(s, i) ==
    IF i > size(s) THEN "end"
    ELSE IF Entry(s, i).type = "test_function" THEN "test"
    ELSE "suite"

\* A named traversal that runs every leaf it comes by.
named_dispatch_any_leaf(s, i, n) ==
    IF i > size(s) THEN "end"
    ELSE IF Entry(s, i).type = "test_function" THEN "test"
    ELSE IF has_test(Entry(s, i).suite, n) THEN "suite" ELSE "skip"

\* A named traversal that enters every nested suite.
named_dispatch_enter_all(s, i, n) ==
    IF i > size(s) THEN "end"
    ELSE IF Entry(s, i).type = "test_function"
         THEN IF Entry(s, i).name = n THEN "test" ELSE "skip"
         ELSE "suite"

\* The same for run_named_test: a leaf runs when strcmp finds the name
\* equal, a nested suite is entered when has_test finds the name in it.
named_dispatch(s, i, n) ==
    IF i > size(s) THEN "end"
    ELSE IF Entry(s, i).type = "test_function"
         THEN IF Entry(s, i).name = n THEN "test" ELSE "skip"
         ELSE IF has_test(Entry(s, i).suite, n) THEN "suite" ELSE "skip"

dispatch(s, i) ==
    IF mode = "suite" THEN every_dispatch(s, i) ELSE named_dispatch(s, i, name)

\* The head of the for loop and the branch on the entry's type.
loop ==
    /\ At("loop")
    /\ LET d == dispatch(Top.suite, Top.i) IN
       /\ stack' = SetTop(
              CASE d = "end"   -> [Top EXCEPT !.at = "notify_suite"]
                [] d = "skip"  -> [Top EXCEPT !.i = @ + 1]
                [] d = "suite" -> [Top EXCEPT !.at = "wrap_setup"]
                [] d = "test"  ->
                     [Top EXCEPT !.at = IF mode = "suite" THEN "isolated"
                                        ELSE "t_start"])
       /\ UNCHANGED <<bvars, tree, mode, name, env, pc, trace, failures,
                      exceptions, exc, throws, result>>

\* run_test_in_its_own_process(suite, test, reporter): the test runs in a
\* child process and the reporter books what the child relays.
run_test_in_its_own_process ==
    /\ At("isolated")
    /\ \E o \in BodyOutcomes :
          /\ stack' = SetTop([Top EXCEPT !.at = "loop", !.i = @ + 1])
          /\ trace' = Append(trace, Ev("isolated", Top.suite, Top.i, o, 0))
          /\ failures' = failures + (IF o = "fail" THEN 1 ELSE 0)
          /\ exceptions' = exceptions + (IF o = "exception" THEN 1 ELSE 0)
    /\ UNCHANGED <<bvars, tree, mode, name, env, pc, exc, throws, result>>

\* A traversal that calls the teardown before it descends, and again after.
wrap_setup_with_teardown ==
    /\ At("wrap_setup")
    /\ stack' = Append(SetTop([Top EXCEPT !.at = "wrap_teardown"]),
                       Frame(Entry(Top.suite, Top.i).suite, 1, "start_suite"))
    /\ trace' = trace \o << Ev("wrap_setup", Top.suite, Top.i,
                                tree[Top.suite].setup, 0),
                             Ev("wrap_teardown", Top.suite, Top.i,
                                tree[Top.suite].teardown, 0) >>
    /\ UNCHANGED <<bvars, tree, mode, name, env, pc, failures, exceptions, exc,
                   throws, result>>

\* (*suite->setup)(); before the recursive call on a nested suite.
wrap_setup ==
    /\ At("wrap_setup")
    /\ stack' = Append(SetTop([Top EXCEPT !.at = "wrap_teardown"]),
                       Frame(Entry(Top.suite, Top.i).suite, 1, "start_suite"))
    /\ trace' = Append(trace, Ev("wrap_setup", Top.suite, Top.i,
                                 tree[Top.suite].setup, 0))
    /\ UNCHANGED <<bvars, tree, mode, name, env, pc, failures, exceptions, exc,
                   throws, result>>

\* (*suite->teardown)(); after the recursive call returned.
wrap_teardown ==
    /\ At("wrap_teardown")
    /\ stack' = SetTop([Top EXCEPT !.at = "loop", !.i = @ + 1])
    /\ trace' = Append(trace, Ev("wrap_teardown", Top.suite, Top.i,
                                 tree[Top.suite].teardown, 0))
    /\ UNCHANGED <<bvars, tree, mode, name, env, pc, failures, exceptions, exc,
                   throws, result>>

\* send_reporter_completion_notification(reporter); at the end of a suite.
notify_suite ==
    /\ At("notify_suite")
    /\ Continue("finish_suite",
                << Ev("notify", Top.suite, 0, "suite", 0) >>, 0, 0, 0)

\* (*reporter->finish_suite)(...); and the return to the caller.
finish_suite ==
    /\ At("finish_suite")
    /\ trace' = Append(trace, Ev("finish_suite", Top.suite, 0, "", 0))
    /\ stack' = SubSeq(stack, 1, Len(stack) - 1)
    /\ pc' = IF Len(stack) = 1 THEN "returning" ELSE pc
    /\ UNCHANGED <<bvars, tree, mode, name, env, failures, exceptions, exc,
                   throws, result>>

----------------------------------------------------------------------------
(* run_test_in_the_current_process and run_the_test_code.                  *)

TopSuite == tree[Top.suite]

TopTest == Entry(Top.suite, Top.i)

\* A runner that sends the completion notification and finish_test before
\* the teardown and the tally.
next_step_early_finish(at) ==
    CASE at = "t_start"    -> "t_reset"
      [] at = "t_reset"    -> "t_timeout"
      [] at = "t_timeout"  -> "t_setup"
      [] at = "t_setup"    -> "t_body"
      [] at = "t_body"     -> "t_notify"
      [] at = "t_notify"   -> "t_teardown"
      [] at = "t_teardown" -> "t_tally"
      [] at = "t_tally"    -> "t_finish"
      [] at = "t_finish"   -> "loop"

\* The order of the calls of one test in the current process.
next_step(at) ==
    CASE at = "t_start"    -> "t_reset"
      [] at = "t_reset"    -> "t_timeout"
      [] at = "t_timeout"  -> "t_setup"
      [] at = "t_setup"    -> "t_body"
      [] at = "t_body"     -> "t_teardown"
      [] at = "t_teardown" -> "t_tally"
      [] at = "t_tally"    -> "t_notify"
      [] at = "t_notify"   -> "t_finish"
      [] at = "t_finish"   -> "loop"

\* (*reporter->start_test)(reporter, test->name);
start_test ==
    /\ At("t_start")
    /\ Continue(next_step("t_start"),
                << Ev("start_test", Top.suite, Top.i, TopTest.name, 0) >>,
                0, 0, 0)

\* significant_figures_for_assert_double_are(8); clear_mocks();
reset_for_test ==
    /\ At("t_reset")
    /\ Continue(next_step("t_reset"),
                << Ev("significant_figures", Top.suite, Top.i, "",
                      DefaultSignificantFigures),
                   Ev("clear_mocks", Top.suite, Top.i, "", 0) >>,
                0, 0, 0)

\* A per-test sequence that validates the timeout but arms nothing.
arm_timeout_never ==
    /\ At("t_timeout")
    /\ IF validation_dies
       THEN die
       ELSE Continue(next_step("t_timeout"), << >>, 0, 0, 0)

\* if (per_test_timeout_defined()) { validate...(); die_in(value); }
arm_timeout ==
    /\ At("t_timeout")
    /\ IF per_test_timeout_defined
       THEN IF timeout_is_invalid(per_test_timeout_value)
            THEN die
            ELSE Continue(next_step("t_timeout"),
                          << Ev("die_in", Top.suite, Top.i, "",
                                per_test_timeout_value) >>, 0, 0, 0)
       ELSE Continue(next_step("t_timeout"), << >>, 0, 0, 0)

\* A resolution that prefers the context's setup to the suite's.
resolve_setup_context_first(s, t) ==
    IF t.ctx_setup THEN "context"
    ELSE IF has_setup(s) THEN "suite" ELSE "none"

\* The setup that runs: the suite's when has_setup(suite), else the
\* context's when it is not NULL, else none.
resolve_setup(s, t) ==
    IF has_setup(s) THEN "suite"
    ELSE IF t.ctx_setup THEN "context" ELSE "none"

\* A resolution that takes the teardown from where the setup came from.
resolve_teardown_as_setup(s, t) ==
    IF has_setup(s) THEN "suite"
    ELSE IF t.ctx_teardown THEN "context" ELSE "none"

\* The teardown that runs: the suite's when it is not &do_nothing, else the
\* context's when it is not NULL, else none.
resolve_teardown(s, t) ==
    IF tree[s].teardown # "do_nothing" THEN "suite"
    ELSE IF t.ctx_teardown THEN "context" ELSE "none"

\* A hook of one test: the suite's is called bare, the context's inside
\* the handlers of run_setup_for / run_teardown_for.
run_hook(at, source, label) ==
    LET call == << Ev(label, Top.suite, Top.i, source, 0) >> IN
    CASE source = "none" ->
            Continue(next_step(at), << >>, 0, 0, 0)
      [] source = "suite" ->
            \E o \in Outcomes("custom") :
                IF o = "return"
                THEN Continue(next_step(at), call, 0, 0, 0)
                ELSE Uncaught(call, o, label)
      [] source = "context" ->
            \E o \in Outcomes("custom") :
                IF o = "return"
                THEN Continue(next_step(at), call, 0, 0, 0)
                ELSE IF is_caught(o)
                     THEN Caught(next_step(at), call, label)
                     ELSE Uncaught(call, o, label)

run_setup ==
    /\ At("t_setup")
    /\ run_hook("t_setup", resolve_setup(Top.suite, TopTest), "setup")

\* run(spec): the body inside its handlers.
run ==
    /\ At("t_body")
    /\ LET call == << Ev("test", Top.suite, Top.i, TopTest.name, 0) >> IN
       \/ \E b \in BodyOutcomes :
             Continue(next_step("t_body"), call,
                      IF b = "fail" THEN 1 ELSE 0,
                      IF b = "exception" THEN 1 ELSE 0, 0)
       \/ \E o \in Outcomes("custom") \ {"return"} :
             IF is_caught(o)
             THEN Caught(next_step("t_body"), call, "test")
             ELSE Uncaught(call, o, "test")

run_teardown ==
    /\ At("t_teardown")
    /\ run_hook("t_teardown", resolve_teardown(Top.suite, TopTest),
                "teardown")

\* tally_mocks(reporter);
tally_mocks ==
    /\ At("t_tally")
    /\ Continue(next_step("t_tally"),
                << Ev("tally_mocks", Top.suite, Top.i, "", 0) >>, 0, 0, 0)

\* send_reporter_completion_notification(reporter); after the test code.
notify_test ==
    /\ At("t_notify")
    /\ Continue(next_step("t_notify"),
                << Ev("notify", Top.suite, Top.i, "test", 0) >>, 0, 0, 0)

\* (*reporter->finish_test)(...); and on to the next entry.
finish_test ==
    /\ At("t_finish")
    /\ stack' = SetTop([Top EXCEPT !.at = next_step("t_finish"), !.i = @ + 1])
    /\ trace' = Append(trace, Ev("finish_test", Top.suite, Top.i, "", 0))
    /\ UNCHANGED <<bvars, tree, mode, name, env, pc, failures, exceptions, exc,
                   throws, result>>

----------------------------------------------------------------------------

Next ==
    \/ validate_at_entry
    \/ setup_reporting
    \/ start_suite
    \/ loop
    \/ run_test_in_its_own_process
    \/ wrap_setup
    \/ wrap_teardown
    \/ notify_suite
    \/ finish_suite
    \/ start_test
    \/ reset_for_test
    \/ arm_timeout
    \/ run_setup
    \/ run
    \/ run_teardown
    \/ tally_mocks
    \/ notify_test
    \/ finish_test
    \/ run_test_suite_return
    \/ run_single_test_return

Spec == Init /\ [][Next]_vars

TypeOK ==
    /\ pc \in {"entry", "validated", "running", "returning", "done",
                "died", "unwound"}
    /\ failures \in Nat /\ exceptions \in Nat
    /\ throws \in 0..MaxThrows

----------------------------------------------------------------------------
(* Vocabulary of the properties.                                           *)

Positions == 1..Len(trace)

\* How often event e was recorded for entry i of suite s (i = 0: the suite).
Count(e, s, i) ==
    Cardinality({k \in Positions :
                    /\ trace[k].ev = e
                    /\ trace[k].suite = s
                    /\ trace[k].idx = i})

\* The same, for the calls that carry a source or label in info.
CountInfo(e, s, i, info) ==
    Cardinality({k \in Positions :
                    /\ trace[k].ev = e
                    /\ trace[k].suite = s
                    /\ trace[k].idx = i
                    /\ trace[k].info = info})

Suites == 1..Len(tree)

\* The leaves of the tree, as (suite, index) pairs.
Leaves ==
    {p \in UNION {{<<s, i>> : i \in 1..Len(tree[s].tests)} : s \in Suites} :
        tree[p[1]].tests[p[2]].type = "test_function"}

LeafName(p) == tree[p[1]].tests[p[2]].name

Children(s) ==
    {tree[s].tests[i].suite :
        i \in {j \in 1..Len(tree[s].tests) :
                  tree[s].tests[j].type = "test_suite"}}

RECURSIVE Reach(_, _)
Reach(set, n) ==
    IF n = 0 THEN set
    ELSE Reach(set \cup UNION {Children(x) : x \in set}, n - 1)

\* The suites of the subtree of s, and the names of the leaves in it.
Subtree(s) == Reach({s}, Len(tree))

NamesIn(s) == {LeafName(p) : p \in {q \in Leaves : q[1] \in Subtree(s)}}

PerTestSites == {"setup", "test", "teardown"}

----------------------------------------------------------------------------
(* C1: order of the calls of one test in a named-test run.                 *)

\* The order the claim states.
ClaimedRank ==
    [setup |-> 1, start_test |-> 2, test |-> 3, notify |-> 4,
     finish_test |-> 5, teardown |-> 6, tally_mocks |-> 7]

\* The order of run_test_in_the_current_process and run_the_test_code.
SourceRank ==
    [start_test |-> 1, setup |-> 2, test |-> 3, teardown |-> 4,
     tally_mocks |-> 5, notify |-> 6, finish_test |-> 7]

\* Any two ranked calls of the same test were made in the order of rank.
InOrder(rank) ==
    \A j, k \in Positions :
        ( /\ j < k
          /\ trace[j].idx > 0
          /\ trace[j].suite = trace[k].suite
          /\ trace[j].idx = trace[k].idx
          /\ trace[j].ev \in DOMAIN rank
          /\ trace[k].ev \in DOMAIN rank )
        => rank[trace[j].ev] < rank[trace[k].ev]

\* A test whose finish_test was emitted went through every call.
AllCallsMade ==
    \A p \in Leaves :
        Count("finish_test", p[1], p[2]) > 0 =>
            /\ \A e \in {"start_test", "test", "tally_mocks", "notify",
                          "finish_test"} : Count(e, p[1], p[2]) = 1
            /\ (tree[p[1]].setup # "do_nothing"
                 \/ tree[p[1]].tests[p[2]].ctx_setup)
                    => Count("setup", p[1], p[2]) = 1
            /\ (tree[p[1]].teardown # "do_nothing"
                 \/ tree[p[1]].tests[p[2]].ctx_teardown)
                    => Count("teardown", p[1], p[2]) = 1

\* C1 as stated: for every test of a named-test run the setup hook runs,
\* then start_test, the body, the completion notification, finish_test,
\* the teardown hook and the mock tally, in this order.
C1_ClaimedOrder == mode = "single" => InOrder(ClaimedRank)

\* C1 amended: for every test of a named-test run start_test is emitted
\* first, then the resolved setup hook runs, then the body, then the
\* resolved teardown hook, then the mocks are tallied, then the completion
\* notification is sent, and finish_test is emitted last.
C1_PerTestOrder == mode = "single" => InOrder(SourceRank) /\ AllCallsMade

\* A test with a setup and a teardown hook ran to its finish_test.
C1_Witness ==
    /\ mode = "single"
    /\ \E p \in Leaves :
          /\ Count("finish_test", p[1], p[2]) = 1
          /\ Count("setup", p[1], p[2]) = 1
          /\ Count("teardown", p[1], p[2]) = 1

----------------------------------------------------------------------------
(* C2: containment of exceptions thrown in the phases of a test.           *)

\* Every suite that was started was finished, with its wrapping hooks.
SuitesBalanced ==
    \A s \in Suites :
        /\ Count("start_suite", s, 0) = Count("finish_suite", s, 0)
        /\ \A i \in 1..Len(tree[s].tests) :
              Count("wrap_setup", s, i) = Count("wrap_teardown", s, i)

\* Every leaf with the target name was started.
MatchesStarted ==
    \A p \in Leaves :
        LeafName(p) = name => Count("start_test", p[1], p[2]) = 1

\* The run ended, and any exception that left the runner is of a type the
\* handlers name, thrown by the setup, body or teardown of a test.
EndedOnSpecifiedThrow ==
    \/ pc = "done"
    \/ /\ pc = "unwound"
       /\ exc.shape \in RecognisedShapes
       /\ exc.site \in PerTestSites

\* An exception of such a type was thrown in a phase of a test.
ThrownInTest ==
    \/ \E k \in Positions : trace[k].ev = "show_fail"
    \/ pc = "unwound" /\ exc.site \in PerTestSites

\* C2: an exception thrown during the setup, body or teardown of a test of
\* a named-test run, the suite's legacy hooks included, never aborts the
\* traversal: every later matching test, and the teardown and finish_suite
\* of every entered suite, still happen.
C2_ThrowsContained ==
    (mode = "single" /\ EndedOnSpecifiedThrow /\ ThrownInTest)
        => SuitesBalanced /\ MatchesStarted

----------------------------------------------------------------------------
(* C3, C4: the value the entry points return.                              *)

\* C3: run_test_suite returns the success status exactly when, after the
\* traversal, failures is 0 and exceptions is 0, and the failure status
\* for every other pair of counters.
C3_SuiteVerdict ==
    (mode = "suite" /\ pc = "done") =>
        /\ stack = << >>
        /\ result \in {"EXIT_SUCCESS", "EXIT_FAILURE"}
        /\ (result = "EXIT_SUCCESS") <=> (failures = 0 /\ exceptions = 0)

\* A full-suite run that ends with exceptions but no failures fails.
C3_Witness ==
    /\ mode = "suite" /\ pc = "done"
    /\ failures = 0 /\ exceptions > 0
    /\ result = "EXIT_FAILURE"

\* C4: run_single_test returns the success status exactly when failures is
\* 0, whatever exceptions is; the counters failures = 0, exceptions > 0
\* give success here and failure in a full-suite run.
C4_SingleVerdict ==
    /\ (mode = "single" /\ pc = "done") =>
          /\ result \in {"EXIT_SUCCESS", "EXIT_FAILURE"}
          /\ (result = "EXIT_SUCCESS") <=> (failures = 0)
    /\ (mode = "suite" /\ pc = "done" /\ failures = 0 /\ exceptions > 0)
          => result = "EXIT_FAILURE"

\* A named-test run that ends with exceptions but no failures succeeds.
C4_Witness ==
    /\ mode = "single" /\ pc = "done"
    /\ failures = 0 /\ exceptions > 0
    /\ result = "EXIT_SUCCESS"

----------------------------------------------------------------------------
(* C5: an invalid timeout aborts the run before the reporter is set up.    *)

\* Values that parse to zero or less, or hold no number.
InvalidTimeouts == { << "0" >>, << "-", "5" >>, << "a", "b", "c" >>, << >> }

----------------------------------------------------------------------------
(* C6, C7: which setup and which teardown run for a test.                  *)

InterruptedAt(p, site) ==
    /\ pc = "unwound"
    /\ exc.site = site
    /\ exc.suite = p[1]
    /\ exc.idx = p[2]

\* The setup step of test p is behind it.
PastSetup(p) ==
    Count("test", p[1], p[2]) > 0 \/ InterruptedAt(p, "setup")

\* The teardown step of test p is behind it.
PastTeardown(p) ==
    Count("tally_mocks", p[1], p[2]) > 0 \/ InterruptedAt(p, "teardown")

\* C6: for every test at most one setup source runs: the suite's setup
\* exactly once and not the context's when the suite has a non-default
\* setup; otherwise the context's exactly once when it is defined; and
\* none when it is not.
C6_SetupPrecedence ==
    \A p \in Leaves :
        LET nSuite == CountInfo("setup", p[1], p[2], "suite")
            nContext == CountInfo("setup", p[1], p[2], "context")
            custom == tree[p[1]].setup # "do_nothing"
            defined == tree[p[1]].tests[p[2]].ctx_setup
        IN  /\ nSuite + nContext = Count("setup", p[1], p[2])
            /\ nSuite + nContext <= 1
            /\ nSuite = 1 => custom
            /\ nContext = 1 => ~custom /\ defined
            /\ PastSetup(p) =>
                  IF custom THEN nSuite = 1 /\ nContext = 0
                  ELSE IF defined THEN nContext = 1 /\ nSuite = 0
                  ELSE nSuite = 0 /\ nContext = 0

\* A test with a context setup ran in a suite with a custom setup.
C6_Witness ==
    \E p \in Leaves :
        /\ tree[p[1]].setup = "custom"
        /\ tree[p[1]].tests[p[2]].ctx_setup
        /\ Count("test", p[1], p[2]) = 1
        /\ CountInfo("setup", p[1], p[2], "suite") = 1

\* C7: for every test the suite's teardown runs exactly once after the
\* body, and not the context's, when the suite's teardown is not the
\* no-op; otherwise the context's exactly once when it is defined; the
\* source depends on the suite's teardown alone, not on the setup chosen.
C7_TeardownPrecedence ==
    \A p \in Leaves :
        LET nSuite == CountInfo("teardown", p[1], p[2], "suite")
            nContext == CountInfo("teardown", p[1], p[2], "context")
            custom == tree[p[1]].teardown # "do_nothing"
            defined == tree[p[1]].tests[p[2]].ctx_teardown
        IN  /\ nSuite + nContext = Count("teardown", p[1], p[2])
            /\ nSuite + nContext <= 1
            /\ nSuite = 1 => custom
            /\ nContext = 1 => ~custom /\ defined
            /\ \A k \in Positions :
                  ( /\ trace[k].ev = "teardown"
                    /\ trace[k].suite = p[1]
                    /\ trace[k].idx = p[2] )
                  => \E j \in 1..(k - 1) :
                        /\ trace[j].ev = "test"
                        /\ trace[j].suite = p[1]
                        /\ trace[j].idx = p[2]
            /\ PastTeardown(p) =>
                  IF custom THEN nSuite = 1 /\ nContext = 0
                  ELSE IF defined THEN nContext = 1 /\ nSuite = 0
                  ELSE nSuite = 0 /\ nContext = 0

\* A test ran the suite's setup and then its own context's teardown.
C7_Witness ==
    \E p \in Leaves :
        /\ CountInfo("setup", p[1], p[2], "suite") = 1
        /\ CountInfo("teardown", p[1], p[2], "context") = 1
        /\ Count("tally_mocks", p[1], p[2]) = 1

----------------------------------------------------------------------------
(* C8: a named-test run enters only the suites that hold the name.         *)

IsWrap(e) == e.ev \in {"wrap_setup", "wrap_teardown"}

\* Whatever was recorded for suite s, s holds the name; a wrapping hook was
\* called around a nested suite that holds it.
HoldsName(e) ==
    /\ name \in NamesIn(e.suite)
    /\ IsWrap(e) => name \in NamesIn(tree[e.suite].tests[e.idx].suite)

\* C8 as stated: no start_suite or finish_suite, test or hook is recorded
\* for any suite whose subtree lacks the name, and the parent's hooks are
\* not called around it.
C8_OnlyMatchingSuites ==
    mode = "single" =>
        \A k \in Positions : trace[k].suite > 0 => HoldsName(trace[k])

\* C8 amended: the same for every suite but the root, whose start_suite,
\* completion notification and finish_suite are emitted in any case; the
\* root's tests and hooks run only for a match.
C8_OnlyMatchingNestedSuites ==
    mode = "single" =>
        \A k \in Positions :
            ( /\ trace[k].suite > 0
              /\ ~(trace[k].suite = Root /\ trace[k].idx = 0) )
            => HoldsName(trace[k])

\* A run that entered one nested suite and passed by another is over.
C8_Witness ==
    /\ mode = "single" /\ pc = "done"
    /\ \E s \in Suites \ {Root} :
          name \notin NamesIn(s) /\ Count("start_suite", s, 0) = 0
    /\ \E s \in Suites \ {Root} : Count("finish_suite", s, 0) = 1

----------------------------------------------------------------------------
(* C9: every leaf with the target name runs once, no other leaf runs.      *)

\* C9: in a named-test run every leaf whose name equals the target has
\* run exactly once, with its own start_test and finish_test, and no leaf
\* of another name has run.
C9_EveryMatchOnce ==
    (mode = "single" /\ EndedOnSpecifiedThrow) =>
        \A p \in Leaves :
            \A e \in {"start_test", "test", "finish_test"} :
                Count(e, p[1], p[2]) = IF LeafName(p) = name THEN 1 ELSE 0

----------------------------------------------------------------------------
(* C10: a full-suite run dispatches every leaf.                            *)

ValidTimeouts == { << "3" >>, << "2", "x" >> }

\* C10: in a full-suite run with a valid or absent timeout every leaf is
\* run in its own process exactly once, whatever the counters hold, and
\* the traversal does not end before the last entry.
C10_EveryLeafDispatched ==
    (mode = "suite" /\ (~env.defined \/ env.value \in ValidTimeouts)) =>
        /\ pc \notin {"died", "unwound"}
        /\ \A p \in Leaves : Count("isolated", p[1], p[2]) <= 1
        /\ pc \in {"returning", "done"} =>
              \A p \in Leaves : Count("isolated", p[1], p[2]) = 1

\* All three leaves were dispatched although the first one failed.
C10_Witness ==
    /\ mode = "suite" /\ pc = "done"
    /\ Cardinality(Leaves) >= 3
    /\ \A p \in Leaves : Count("isolated", p[1], p[2]) = 1
    /\ \E k \in Positions :
          /\ trace[k].ev = "isolated" /\ trace[k].info = "fail"
          /\ \E j \in Positions :
                j > k /\ trace[j].ev = "isolated"
    /\ failures > 0 /\ exceptions > 0

----------------------------------------------------------------------------
(* C11: declared order, depth first, hooks around the nested subtree.      *)

Is(e, ev, su, i) == e.ev = ev /\ e.suite = su /\ e.idx = i

\* The entries of the tree that hold a nested suite.
NestedEntries ==
    {p \in UNION {{<<su, i>> : i \in 1..Len(tree[su].tests)} : su \in Suites} :
        tree[p[1]].tests[p[2]].type = "test_suite"}

ChildOf(p) == tree[p[1]].tests[p[2]].suite

\* What is recorded for one suite is recorded in the order of its entries.
DeclaredOrder ==
    \A j, k \in Positions :
        ( /\ j < k
          /\ trace[j].suite = trace[k].suite
          /\ trace[j].idx > 0
          /\ trace[k].idx > 0 )
        => trace[j].idx <= trace[k].idx

\* The enclosing suite's setup is the call right before the nested suite's
\* start_suite, its teardown the call right after the nested finish_suite,
\* each made once, and all that lies between belongs to the nested subtree.
WrappedOnce(p) ==
    LET c == ChildOf(p) IN
    /\ Count("wrap_setup", p[1], p[2]) <= 1
    /\ Count("wrap_teardown", p[1], p[2]) <= 1
    /\ Count("start_suite", c, 0) <= 1
    /\ \A k \in Positions :
          /\ Is(trace[k], "start_suite", c, 0) =>
                k > 1 /\ Is(trace[k - 1], "wrap_setup", p[1], p[2])
          /\ Is(trace[k], "wrap_setup", p[1], p[2]) =>
                k = Len(trace) \/ Is(trace[k + 1], "start_suite", c, 0)
          /\ Is(trace[k], "finish_suite", c, 0) =>
                k = Len(trace) \/ Is(trace[k + 1], "wrap_teardown", p[1], p[2])
          /\ Is(trace[k], "wrap_teardown", p[1], p[2]) =>
                k > 1 /\ Is(trace[k - 1], "finish_suite", c, 0)
    /\ LET downs == {k \in Positions :
                        Is(trace[k], "wrap_teardown", p[1], p[2])}
           last(j) == IF \E k \in downs : k > j
                      THEN (CHOOSE k \in downs :
                               k > j /\ \A h \in downs : h > j => k <= h) - 1
                      ELSE Len(trace)
       IN  \A j \in Positions :
               Is(trace[j], "wrap_setup", p[1], p[2]) =>
                   \A m \in (j + 1)..last(j) :
                       trace[m].suite \in Subtree(c)

\* C11: the entries of a suite are processed in index order and nested
\* suites depth first; the enclosing suite's setup is called once before
\* the nested start_suite and its teardown once after the nested
\* finish_suite, and never between the leaves of the nested subtree.
C11_TraversalOrder ==
    /\ DeclaredOrder
    /\ \A p \in NestedEntries : WrappedOnce(p)

\* A nested suite in which two leaves ran was left through the teardown,
\* and a later entry of the enclosing suite ran after it.
C11_Witness ==
    \E p \in NestedEntries :
        /\ Count("wrap_teardown", p[1], p[2]) = 1
        /\ Cardinality({k \in Positions :
                           /\ trace[k].ev \in {"isolated", "test"}
                           /\ trace[k].suite \in Subtree(ChildOf(p))}) >= 2
        /\ \E k \in Positions :
              trace[k].suite = p[1] /\ trace[k].idx > p[2]

----------------------------------------------------------------------------
(* C12: a thrown exception of a recognised type is reported once.          *)

\* The label of the phase a step of the per-test sequence is in.
PhaseOf(at) ==
    CASE at = "t_setup" -> "setup"
      [] at = "t_body" -> "test"
      [] at = "t_teardown" -> "teardown"
      [] OTHER -> "none"

\* This step threw an exception of a type the handlers name.
RecognisedThrow ==
    /\ throws' = throws + 1
    /\ exc' = NoExc \/ exc'.shape \in RecognisedShapes

\* The step ended with one show_fail for the running test, labelled with
\* the phase, and one more failure and one more exception are counted.
ReportedOnce ==
    /\ failures' = failures + 1
    /\ exceptions' = exceptions + 1
    /\ Len(trace') >= Len(trace) + 1
    /\ Is(trace'[Len(trace')], "show_fail", Top.suite, Top.i)
    /\ trace'[Len(trace')].info = PhaseOf(Top.at)
    /\ Cardinality({k \in (Len(trace) + 1)..Len(trace') :
                       trace'[k].ev = "show_fail"}) = 1

\* C12: whenever the setup, the body or the teardown of a test throws an
\* exception of a recognised type, the runner reports exactly one failure
\* for the test with the label of that phase, and failures and exceptions
\* each grow by one.
C12_ThrowReported == [][RecognisedThrow => ReportedOnce]_vars

----------------------------------------------------------------------------
(* C13: a tree without tests.                                              *)

\* C13: a full-suite run over a tree without any leaf still emits
\* start_suite and finish_suite for the root and returns the success
\* status (unless the timeout configuration is invalid, when it dies
\* before anything is emitted).
C13_EmptySuiteSucceeds ==
    (mode = "suite" /\ Leaves = {}) =>
        /\ pc # "unwound"
        /\ (~env.defined \/ env.value \in ValidTimeouts) => pc # "died"
        /\ pc \in {"returning", "done"} =>
              /\ Count("start_suite", Root, 0) = 1
              /\ Count("finish_suite", Root, 0) = 1
              /\ failures = 0 /\ exceptions = 0
        /\ pc = "done" => result = "EXIT_SUCCESS"

\* The run over the tree of three suites without a leaf succeeded.
C13_Witness ==
    /\ mode = "suite" /\ pc = "done"
    /\ Leaves = {} /\ Len(tree) = 3
    /\ Count("finish_suite", Root, 0) = 1
    /\ result = "EXIT_SUCCESS"

----------------------------------------------------------------------------
(* The breadcrumb: create, push, pop, current and walk.                    *)

\* Bound on the number of pushes and pops applied to one breadcrumb.
MaxOps == 5

\* The names the tests push.
BreadcrumbNames == {"Hello", "Goodbye"}

runner_vars ==
    <<tree, mode, name, env, pc, stack, trace, failures, exceptions, exc,
      throws, result>>

\* create_breadcrumb(): no name on the trail.
create_breadcrumb == << >>

\* The trail after push_breadcrumb(breadcrumb, n): n is the new top.
pushed(b, n) == Append(b, n)

\* A pop that drops the oldest name instead of the newest.
popped_oldest(b) == IF b = << >> THEN b ELSE Tail(b)

\* The trail after pop_breadcrumb(breadcrumb): the top is removed; the
\* empty trail is left as it is.
popped(b) == IF b = << >> THEN b ELSE SubSeq(b, 1, Len(b) - 1)

\* get_current_from_breadcrumb(breadcrumb): the top name, << >> for NULL.
get_current_from_breadcrumb(b) ==
    IF b = << >> THEN << >> ELSE << b[Len(b)] >>

RECURSIVE Reversed(_)
Reversed(b) == IF b = << >> THEN << >> ELSE Append(Reversed(Tail(b)), Head(b))

\* A walk that starts at the top.
walk_order_newest_first(b) == Reversed(b)

\* The names walk_breadcrumb calls the walker with, in the order of the
\* calls: every name on the trail, the oldest first.
walk_order(b) == b

BreadcrumbInit ==
    /\ tree = << Suite("do_nothing", "do_nothing", << >>) >>
    /\ mode = "suite"
    /\ name = ""
    /\ env = [defined |-> FALSE, value |-> << >>]
    /\ pc = "idle"
    /\ stack = << >>
    /\ trace = << >>
    /\ failures = 0
    /\ exceptions = 0
    /\ exc = NoExc
    /\ throws = 0
    /\ result = "none"
    /\ trail = create_breadcrumb
    /\ ops = << >>
    /\ misused = FALSE
    /\ visited = << >>
    /\ last_op = "create"

push_breadcrumb ==
    /\ Len(ops) < MaxOps
    /\ \E n \in BreadcrumbNames :
          /\ trail' = pushed(trail, n)
          /\ ops' = Append(ops, [op |-> "push", name |-> n])
    /\ visited' = << >>
    /\ last_op' = "push"
    /\ UNCHANGED <<misused, runner_vars>>

pop_breadcrumb ==
    /\ Len(ops) < MaxOps
    /\ trail' = popped(trail)
    /\ IF trail = << >>
       THEN misused' = TRUE /\ ops' = ops
       ELSE misused' = misused
            /\ ops' = Append(ops, [op |-> "pop", name |-> ""])
    /\ visited' = << >>
    /\ last_op' = "pop"
    /\ UNCHANGED runner_vars

walk_breadcrumb ==
    /\ visited' = walk_order(trail)
    /\ last_op' = "walk"
    /\ UNCHANGED <<trail, ops, misused, runner_vars>>

BreadcrumbNext ==
    \/ push_breadcrumb
    \/ pop_breadcrumb
    \/ walk_breadcrumb

BreadcrumbSpec == BreadcrumbInit /\ [][BreadcrumbNext]_vars

----------------------------------------------------------------------------
(* C14, C15: the breadcrumb against the history of its pushes and pops.    *)

\* Pushes minus pops among the first j operations.
DepthAfter(j) ==
    Cardinality({k \in 1..j : ops[k].op = "push"})
    - Cardinality({k \in 1..j : ops[k].op = "pop"})

\* Operation k is a push that no later pop has taken back.
Live(k) ==
    /\ ops[k].op = "push"
    /\ \A j \in k..Len(ops) : DepthAfter(j) >= DepthAfter(k)

RECURSIVE LiveFrom(_)
\* The names pushed and not yet popped, in the order they were pushed.
LiveFrom(k) ==
    IF k > Len(ops) THEN << >>
    ELSE (IF Live(k) THEN << ops[k].name >> ELSE << >>) \o LiveFrom(k + 1)

LiveNames == LiveFrom(1)

\* C14: after any pushes and pops on a fresh breadcrumb, none of the pops
\* applied to the empty stack, current() is the most recently pushed name
\* not yet popped, and NULL exactly when every pushed name was popped.
C14_CurrentIsLastUnpopped ==
    ~misused =>
        LET current == get_current_from_breadcrumb(trail)
            live == {k \in 1..Len(ops) : Live(k)}
        IN  /\ live = {} => current = << >>
            /\ live # {} =>
                  current = << ops[CHOOSE k \in live :
                                     \A h \in live : h <= k].name >>
            /\ (current = << >>) <=> (DepthAfter(Len(ops)) = 0)

\* After push, push of another name, pop the first name is current again.
C14_Witness ==
    /\ ~misused
    /\ Len(ops) = 3
    /\ ops[1].op = "push" /\ ops[2].op = "push" /\ ops[3].op = "pop"
    /\ ops[1].name # ops[2].name
    /\ get_current_from_breadcrumb(trail) = << ops[1].name >>

\* C15: walk calls the visitor once for each entry on the stack, none for
\* the empty stack, with the entry's name, the oldest first, and leaves
\* the stack and current() as they were.
C15_WalkVisitsAll ==
    [][last_op' = "walk" =>
          /\ visited' = LiveNames
          /\ Len(visited') = DepthAfter(Len(ops))
          /\ trail' = trail
          /\ get_current_from_breadcrumb(trail')
                = get_current_from_breadcrumb(trail)]_vars

\* A walk over two different names, after a pop, is done.
C15_Witness ==
    /\ last_op = "walk"
    /\ Len(visited) = 2
    /\ visited[1] # visited[2]
    /\ \E k \in 1..Len(ops) : ops[k].op = "pop"

----------------------------------------------------------------------------
(* C16: the watchdog in a named-test run.                                  *)

\* The seconds the valid values of the variable stand for.
ExpectedSeconds ==
    IF env.value = << "3" >> THEN 3
    ELSE IF env.value = << "2", "x" >> THEN 2
    ELSE 0

\* C16 as stated: in a named-test run no watchdog is ever armed, also
\* with the timeout variable set to a valid positive value.
C16_NoWatchdog ==
    mode = "single" => \A k \in Positions : trace[k].ev # "die_in"

\* C16 amended: in a named-test run the watchdog is armed in the calling
\* process, once for every executed test and before its setup and body,
\* with the configured seconds, when the timeout variable is set to a
\* valid positive value; it is never armed when the variable is absent.
C16_WatchdogWhenConfigured ==
    mode = "single" =>
        /\ \A k \in Positions :
              trace[k].ev = "die_in" =>
                  /\ env.defined
                  /\ trace[k].n = ExpectedSeconds
                  /\ trace[k].n > 0
                  /\ \A j \in 1..k :
                        ( /\ trace[j].suite = trace[k].suite
                          /\ trace[j].idx = trace[k].idx )
                        => trace[j].ev \notin {"setup", "test"}
        /\ \A p \in Leaves :
              /\ Count("die_in", p[1], p[2]) <= 1
              /\ (Count("setup", p[1], p[2]) + Count("test", p[1], p[2]) > 0)
                    => Count("die_in", p[1], p[2])
                          = IF env.defined THEN 1 ELSE 0

\* A test of a named-test run finished with the watchdog armed for 3 s.
C16_Witness ==
    /\ mode = "single"
    /\ env.defined /\ env.value = << "3" >>
    /\ \E p \in Leaves :
          /\ Count("finish_test", p[1], p[2]) = 1
          /\ \E k \in Positions :
                Is(trace[k], "die_in", p[1], p[2]) /\ trace[k].n = 3

----------------------------------------------------------------------------
(* C17: the reset before and the tally after the phases of a test.         *)

\* Reset first, then the timeout, the setup, the body, the teardown and
\* the tally.
BookkeepingRank ==
    [significant_figures |-> 1, clear_mocks |-> 2, die_in |-> 3,
     setup |-> 4, test |-> 5, teardown |-> 6, tally_mocks |-> 7]

TestSteps ==
    {"t_start", "t_reset", "t_timeout", "t_setup", "t_body", "t_teardown",
     "t_tally", "t_notify", "t_finish"}

\* The runner is inside the per-test sequence of p.
InProgress(p) ==
    /\ pc = "running" /\ stack # << >>
    /\ Top.suite = p[1] /\ Top.i = p[2]
    /\ Top.at \in TestSteps

\* The per-test sequence of p was entered and is over: it returned, or an
\* exception of a type the handlers name left it.
SequenceOver(p) ==
    /\ Count("clear_mocks", p[1], p[2]) > 0
    /\ ~InProgress(p)
    /\ pc = "unwound" => exc.shape \in RecognisedShapes

\* C17: in each per-test execution the mocks and the precision are reset
\* before the timeout is armed and before any setup hook or the body, and
\* the mocks are tallied exactly once, after the teardown step, whichever
\* setup and teardown source was chosen, or none.
C17_ResetFirstTallyLast ==
    /\ InOrder(BookkeepingRank)
    /\ \A p \in Leaves :
          /\ \A k \in Positions :
                ( /\ trace[k].suite = p[1] /\ trace[k].idx = p[2]
                  /\ trace[k].ev \in {"die_in", "setup", "test", "show_fail",
                                      "teardown", "tally_mocks"} )
                => /\ \E j \in 1..k :
                         /\ Is(trace[j], "significant_figures", p[1], p[2])
                         /\ trace[j].n = 8
                   /\ \E j \in 1..k : Is(trace[j], "clear_mocks", p[1], p[2])
          /\ \A k \in Positions :
                Is(trace[k], "tally_mocks", p[1], p[2]) =>
                    /\ Count("test", p[1], p[2]) = 1
                    /\ (tree[p[1]].teardown # "do_nothing"
                         \/ tree[p[1]].tests[p[2]].ctx_teardown)
                           => Count("teardown", p[1], p[2]) = 1
                    /\ \A j \in k..Len(trace) :
                          ( /\ trace[j].suite = p[1]
                            /\ trace[j].idx = p[2] )
                          => trace[j].ev \in {"tally_mocks", "notify",
                                              "finish_test"}
          /\ SequenceOver(p) => Count("tally_mocks", p[1], p[2]) = 1

----------------------------------------------------------------------------
(* C18: start_suite and finish_suite are well bracketed.                   *)

\* C18: in both run modes every start_suite is followed by exactly one
\* finish_suite of the same suite, which comes right after a completion
\* notification, and the pair of a nested suite lies inside the pair of
\* the enclosing suite.
C18_WellBracketed ==
    /\ \A su \in Suites :
          /\ Count("start_suite", su, 0) <= 1
          /\ Count("finish_suite", su, 0) <= Count("start_suite", su, 0)
          /\ \A k \in Positions :
                Is(trace[k], "finish_suite", su, 0) =>
                    /\ k > 1
                    /\ Is(trace[k - 1], "notify", su, 0)
                    /\ \E j \in 1..k : Is(trace[j], "start_suite", su, 0)
    /\ \A p \in NestedEntries :
          \A k \in Positions :
              trace[k].suite = ChildOf(p) =>
                  /\ \E j \in 1..k : Is(trace[j], "start_suite", p[1], 0)
                  /\ \A j \in 1..k : ~Is(trace[j], "finish_suite", p[1], 0)
    /\ EndedOnSpecifiedThrow =>
          \A su \in Suites :
              Count("finish_suite", su, 0) = Count("start_suite", su, 0)

----------------------------------------------------------------------------
(* C19: a caught exception ends its phase and nothing else.                *)

\* The runner stands at step at of test p, nothing recorded for it yet.
PendingAt(p, at) ==
    /\ pc = "running" /\ stack # << >>
    /\ Top.suite = p[1] /\ Top.i = p[2] /\ Top.at = at

HasTeardown(p) ==
    tree[p[1]].teardown # "do_nothing" \/ tree[p[1]].tests[p[2]].ctx_teardown

\* An exception left the runner from the sequence of p.
EscapedFrom(p) == pc = "unwound" /\ exc.suite = p[1] /\ exc.idx = p[2]

\* C19: after the context setup of a test threw an exception that was
\* caught, the body, the teardown step and the tally of that test still
\* run; after a body that threw, the teardown step and the tally; and the
\* phase that threw is not entered again.
C19_OnlyThePhaseEnds ==
    \A p \in Leaves :
        /\ \A k \in Positions :
              ( Is(trace[k], "show_fail", p[1], p[2])
                /\ trace[k].info = "setup" ) =>
                  IF k = Len(trace) THEN PendingAt(p, "t_body")
                  ELSE Is(trace[k + 1], "test", p[1], p[2])
        /\ \A k \in Positions :
              ( Is(trace[k], "show_fail", p[1], p[2])
                /\ trace[k].info = "test" ) =>
                  IF k = Len(trace)
                  THEN \/ PendingAt(p, "t_teardown")
                       \/ ~HasTeardown(p) /\ PendingAt(p, "t_tally")
                  ELSE IF HasTeardown(p)
                       THEN Is(trace[k + 1], "teardown", p[1], p[2])
                       ELSE Is(trace[k + 1], "tally_mocks", p[1], p[2])
        /\ \A ph \in PerTestSites :
              /\ CountInfo("show_fail", p[1], p[2], ph) <= 1
              /\ CountInfo("show_fail", p[1], p[2], ph) = 1
                    => Count(ph, p[1], p[2]) = 1
        /\ ( /\ CountInfo("show_fail", p[1], p[2], "setup")
                 + CountInfo("show_fail", p[1], p[2], "test") > 0
              /\ ~InProgress(p)
              /\ ~EscapedFrom(p) ) =>
                /\ Count("test", p[1], p[2]) = 1
                /\ Count("teardown", p[1], p[2])
                      = IF HasTeardown(p) THEN 1 ELSE 0
                /\ Count("tally_mocks", p[1], p[2]) = 1

\* A test whose context setup threw ran its body, teardown and tally.
C19_Witness ==
    \E p \in Leaves :
        /\ CountInfo("show_fail", p[1], p[2], "setup") = 1
        /\ Count("test", p[1], p[2]) = 1
        /\ Count("teardown", p[1], p[2]) = 1
        /\ Count("tally_mocks", p[1], p[2]) = 1
        /\ Count("finish_test", p[1], p[2]) = 1

----------------------------------------------------------------------------
(* C20: a named-test run for a name that no leaf has.                      *)

\* C20: when the name matches no leaf of the tree the root is still
\* entered: one start_suite, one completion notification and one
\* finish_suite are emitted for the root, no body and no hook runs, no
\* nested suite is entered, and run_single_test returns success.
C20_NoMatchEntersRootOnly ==
    ( /\ mode = "single"
      /\ \A p \in Leaves : LeafName(p) # name
      /\ ~env.defined \/ env.value \in ValidTimeouts ) =>
        /\ pc \notin {"died", "unwound"}
        /\ \A k \in Positions :
              \/ Is(trace[k], "setup_reporting", 0, 0)
              \/ /\ trace[k].suite = Root /\ trace[k].idx = 0
                 /\ trace[k].ev \in {"start_suite", "notify", "finish_suite"}
        /\ \A e \in {"start_suite", "notify", "finish_suite"} :
              /\ Count(e, Root, 0) <= 1
              /\ pc \in {"returning", "done"} => Count(e, Root, 0) = 1
        /\ failures = 0
        /\ pc = "done" => result = "EXIT_SUCCESS"

\* The run for a name no leaf has, over a tree with leaves in the root and
\* in nested suites, returned success.
C20_Witness ==
    /\ mode = "single" /\ pc = "done"
    /\ name = "zz"
    /\ Cardinality(Leaves) >= 3
    /\ Len(tree) >= 2
    /\ Len(trace) = 4
    /\ result = "EXIT_SUCCESS"

====
